---------------------------- MODULE Spec2Model ----------------------------
(***************************************************************************)
(* LazyDB storage engine: log segments per value category, the fid         *)
(* registry, startup recovery (buildLogFiles), the write path with lazy    *)
(* rotation, reads by fid, Sync, Close and Merge.                          *)
(*                                                                         *)
(* src/db.go holds Open, buildLogFiles, Sync, Close and Merge.  The        *)
(* logfile package, writeLogEntry, getActiveLogFile, getArchivedLogFile,   *)
(* encodeKey and decodeKey are called by src/db_test.go but are not part   *)
(* of the sources at hand; they are modelled from spec.md sections         *)
(* 4.1-4.3, 4.5 and 5.                                                     *)
(***************************************************************************)
EXTENDS Integers, Sequences, FiniteSets, TLC

\* ------------------------------------------------------------------ bounds

\* Entries the directory holds at most, those being written included.
MaxWrites == 3

\* --------------------------------------------------------------- constants

\* src/db.go:80
logFileTypeNum == 5

\* cfg.MaxLogFileSize of src/db_test.go:54
MaxLogFileSize == 150

\* Width of the fid field written by the logfile package ("%09d").
FidFieldWidth == 9

\* uint32(fid) of src/db.go:167 keeps the value modulo 2^FidBits.  TLC's
\* integers are 32 bits wide and signed, so the width of the fid type is
\* scaled from 32 to 16 bits.
FidBits == 16

\* Encoded sizes of the entries written: two entries of 70 fit in 150 and a
\* third does not (src/db_test.go:54,73-75); 70 + 80 fills a segment exactly.
EntrySizes == {70, 80}

Types == 0 .. (logFileTypeNum - 1)

\* The categories written to: valueTypeString and valueTypeHash (src/db.go:74-76).
WriteTypes == {0, 2}

Writers == {"w1", "w2"}

Syncers == {"s1"}

Procs == Writers \cup Syncers

\* activeLogFileMap has no entry for the category.
NoLogFile == -1

\* A lock nobody holds.
Free == "free"

\* ---------------------------------------------------------------- file names

\* logfile.FilePrefix is "log."; a name is held as its dot-separated fields,
\* so a name has the prefix when it has a second field and the first is "log".
FilePrefix == "log"

HasPrefix(name) == Len(name) >= 2 /\ name[1] = FilePrefix

\* logfile.FileTypesMap: the category field of a name to its FType.
FileTypesMap ==
  [n \in {"strs", "list", "hash", "sets", "zset"} |->
     CASE n = "strs" -> 0
       [] n = "list" -> 1
       [] n = "hash" -> 2
       [] n = "sets" -> 3
       [] n = "zset" -> 4]

\* A Go map index: the zero value when the key is absent.
FileTypesMapLookup(field) ==
  IF field \in DOMAIN FileTypesMap THEN FileTypesMap[field] ELSE 0

FileTypeName(typ) == CHOOSE n \in DOMAIN FileTypesMap : FileTypesMap[n] = typ

Digits == <<"0", "1", "2", "3", "4", "5", "6", "7", "8", "9">>

DigitSet == {Digits[i] : i \in 1 .. 10}

DigitVal(ch) == (CHOOSE i \in 1 .. 10 : Digits[i] = ch) - 1

RECURSIVE DigitsValue(_)
DigitsValue(s) ==
  IF s = <<>> THEN 0
  ELSE 10 * DigitsValue(SubSeq(s, 1, Len(s) - 1)) + DigitVal(s[Len(s)])

\* strconv.Atoi: an optional sign and at least one decimal digit.
Atoi(s) ==
  LET signed == s # <<>> /\ s[1] \in {"+", "-"}
      body   == IF signed THEN Tail(s) ELSE s
  IN  IF body = <<>> \/ \E i \in 1 .. Len(body) : body[i] \notin DigitSet
      THEN [ok |-> FALSE, val |-> 0]
      ELSE [ok |-> TRUE,
            val |-> IF signed /\ s[1] = "-" THEN 0 - DigitsValue(body)
                    ELSE DigitsValue(body)]

\* The conversion uint32(fid) of src/db.go:167.
uint32(n) == n % (2 ^ FidBits)

RECURSIVE Itoa(_)
Itoa(n) ==
  IF n < 10 THEN <<Digits[n + 1]>>
  ELSE Append(Itoa(n \div 10), Digits[(n % 10) + 1])

\* fmt.Sprintf("%09d", fid)
FidText(fid) ==
  LET d == Itoa(fid)
      w == IF Len(d) < FidFieldWidth THEN FidFieldWidth ELSE Len(d)
  IN  [i \in 1 .. w |-> IF i <= w - Len(d) THEN "0" ELSE d[i - (w - Len(d))]]

\* The name of the segment file of (typ, fid), as the logfile package writes it.
FileName(typ, fid) == <<FilePrefix, FileTypeName(typ), FidText(fid)>>

\* ------------------------------------------------------------------ segments

RECURSIVE SegSize(_)
SegSize(content) ==
  IF content = <<>> THEN 0 ELSE content[1].size + SegSize(Tail(content))

\* The offset at which the i-th entry of a segment starts.
OffsetOf(content, i) == SegSize(SubSeq(content, 1, i - 1))

IOError == [err |-> "IOError", bytes |-> {}]

ErrLogFileNotExist == [err |-> "ErrLogFileNotExist", bytes |-> {}]

Min2(a, b) == IF a < b THEN a ELSE b

Max2(a, b) == IF a > b THEN a ELSE b

\* LogFile.Read(offset, length): the bytes of [offset, offset + length), each
\* run of bytes named by the entry it belongs to and its place in the file;
\* IOError when the range is not inside the file.
ReadAt(content, offset, length) ==
  IF offset < 0 \/ length <= 0 \/ offset + length > SegSize(content)
  THEN IOError
  ELSE [err |-> "nil",
        bytes |-> {<<i, content[i].val,
                     Max2(offset, OffsetOf(content, i)),
                     Min2(offset + length, OffsetOf(content, i + 1))>> :
                   i \in {j \in 1 .. Len(content) :
                            /\ OffsetOf(content, j) < offset + length
                            /\ OffsetOf(content, j + 1) > offset}}]

\* ------------------------------------------------------------------- state

VARIABLES
  files,             \* the database directory: file name -> content
  phase,             \* "down": no engine in use; "up": Open returned an engine
  fidsMap,           \* db.fidsMap[typ].fids
  activeLogFileMap,  \* db.activeLogFileMap[typ]: the active fid, or NoLogFile
  archivedLogFile,   \* db.archivedLogFile[typ]: the archived fids
  locked,            \* the MutexLogFile.mu held, of active segments: <<typ, fid>>
  setMu,             \* per category, the holder of the segment set's lock
  pc,                \* each process's position
  wr,                \* each writer's call: category, entry, rotation decision
  sy,                \* each syncer's call: keys at start, syncs done, result
  recovery,          \* "never"; "fatal": the last Open aborted; "fresh": no
                     \* rotation since Open; "reminted": one rotation since
                     \* Open, in a category recovered with fids; "rotated"
  returned,          \* history: every position a write returned
  minted,            \* history: per category, the fids minted, in order
  ever,              \* history: per category, every fid it ever had
  snap,              \* history: the engine and the directory at the last Close
  rd,                \* the read that the last step made, if it was a read
  ek                 \* a composite key on its way through encodeKey and decodeKey

vars == <<files, phase, fidsMap, activeLogFileMap, archivedLogFile, locked, setMu,
          pc, wr, sy, recovery, returned, minted, ever, snap, rd, ek>>

NoWrite == [typ |-> 0, size |-> 0, rotate |-> FALSE]

NoSync == [start |-> {}, log |-> <<>>, cur |-> <<>>, res |-> "none"]

NoSnap == [taken |-> FALSE, active |-> <<>>, archived |-> <<>>, files |-> <<>>]

NoRead == [typ |-> -1, fid |-> 0, offset |-> 0, length |-> 0, res |-> IOError]

NoKey == [pc |-> "idle", key |-> <<>>, subKey |-> <<>>, buf |-> <<>>, out |-> <<>>]

\* The struct literal and the loop of src/db.go:115-129.
EmptyFids == [t \in Types |-> <<>>]

EmptyActive == [t \in Types |-> NoLogFile]

EmptyArchived == [t \in Types |-> {}]

Init ==
  /\ files = <<>>
  /\ phase = "down"
  /\ fidsMap = EmptyFids
  /\ activeLogFileMap = EmptyActive
  /\ archivedLogFile = EmptyArchived
  /\ locked = {}
  /\ setMu = [t \in Types |-> Free]
  /\ pc = [p \in Procs |-> "idle"]
  /\ wr = [p \in Writers |-> NoWrite]
  /\ sy = [p \in Syncers |-> NoSync]
  /\ recovery = "never"
  /\ returned = {}
  /\ minted = [t \in Types |-> <<>>]
  /\ ever = [t \in Types |-> {}]
  /\ snap = NoSnap
  /\ rd = NoRead
  /\ ek = NoKey

\* ---------------------------------------------------------------- recovery

\* A directory loop that appends to a copy of the registry and drops it.
registerFileDropped(reg, name) == reg

\* A directory loop that takes the second and third field of any name that
\* has them, however many fields follow.
registerFileAnyFields(reg, name) ==
  IF ~HasPrefix(name) THEN reg
  ELSE IF Len(name) < 3 THEN reg
  ELSE LET typ == FileTypesMapLookup(name[2])
           fid == Atoi(name[3])
       IN  IF ~fid.ok THEN reg
           ELSE [reg EXCEPT ![typ] = Append(@, uint32(fid.val))]

\* One turn of the directory loop, src/db.go:151-168: the registry after `name`.
registerFile(reg, name) ==
  IF ~HasPrefix(name) THEN reg
  ELSE IF Len(name) # 3 THEN reg
  ELSE LET typ == FileTypesMapLookup(name[2])
           fid == Atoi(name[3])
       IN  IF ~fid.ok THEN reg
           ELSE [reg EXCEPT ![typ] = Append(@, uint32(fid.val))]

\* The directory loop, src/db.go:151-168, over the names os.ReadDir returned.
RECURSIVE scanDir(_, _)
scanDir(names, reg) ==
  IF names = {} THEN reg
  ELSE LET name == CHOOSE n \in names : TRUE
       IN  scanDir(names \ {name}, registerFile(reg, name))

\* A comparison that sorts the fids in descending order.
fidGreater(a, b) == a > b

\* The comparison of src/db.go:178.
fidLess(a, b) == a < b

RECURSIVE insertFid(_, _)
insertFid(sorted, fid) ==
  IF sorted = <<>> THEN <<fid>>
  ELSE IF fidLess(fid, sorted[1]) THEN <<fid>> \o sorted
  ELSE <<sorted[1]>> \o insertFid(Tail(sorted), fid)

\* sort.Slice of src/db.go:177-179.
RECURSIVE sortFids(_)
sortFids(fids) ==
  IF fids = <<>> THEN <<>>
  ELSE insertFid(sortFids(SubSeq(fids, 1, Len(fids) - 1)), fids[Len(fids)])

\* logfile.Open of (typ, fid) returns an error: `bad` is the segment whose
\* open fails in this run of buildLogFiles.
OpenFails(typ, fid, bad) == bad = <<typ, fid>>

NoBadFile == <<-1, 0>>

\* A build that logs the failed open and goes on to the next fid.
buildNeverAborts(fidsOf, bad) == FALSE

\* src/db.go:183-185: log.Fatalf ends the process at the first open that fails.
buildAborts(fidsOf, bad) ==
  \E t \in Types : \E i \in 1 .. Len(fidsOf[t]) : OpenFails(t, fidsOf[t][i], bad)

\* A build that takes the first of the sorted fids for the active segment.
IsActiveIndexFirst(i, n) == i = 1

\* src/db.go:189: the last index of the sorted fids (indices from 1 here).
IsActiveIndex(i, n) == i = n

\* src/db.go:170-195: activeLogFileMap[typ] after build(typ).
buildActive(fids, typ, bad) ==
  LET hits == {i \in 1 .. Len(fids) :
                 IsActiveIndex(i, Len(fids)) /\ ~OpenFails(typ, fids[i], bad)}
  IN  IF hits = {} THEN NoLogFile
      ELSE fids[CHOOSE i \in hits : \A j \in hits : j <= i]

\* src/db.go:170-195: the keys of archivedLogFile[typ] after build(typ).
buildArchived(fids, typ, bad) ==
  {fids[i] : i \in {j \in 1 .. Len(fids) :
                      ~IsActiveIndex(j, Len(fids)) /\ ~OpenFails(typ, fids[j], bad)}}

\* logfile.Open creates the file of (typ, fid) when the directory lacks it.
ensureFiles(dir, fidsOf) ==
  LET names == UNION {{FileName(t, fidsOf[t][i]) : i \in 1 .. Len(fidsOf[t])} :
                        t \in Types}
  IN  [n \in (DOMAIN dir) \cup names |-> IF n \in DOMAIN dir THEN dir[n] ELSE <<>>]

SeqElems(s) == {s[i] : i \in 1 .. Len(s)}

AllIdle == \A p \in Procs : pc[p] = "idle"

\* Open, src/db.go:106-142, with buildLogFiles, src/db.go:146-200.
Open(bad) ==
  /\ phase = "down"
  /\ AllIdle
  /\ \E sorted \in {[t \in Types |-> sortFids(scanDir(DOMAIN files, EmptyFids)[t])]} :
         IF buildAborts(sorted, bad)
         THEN /\ phase' = "down"
              /\ recovery' = "fatal"
              /\ fidsMap' = EmptyFids
              /\ activeLogFileMap' = EmptyActive
              /\ archivedLogFile' = EmptyArchived
              /\ UNCHANGED <<files, ever>>
         ELSE /\ phase' = "up"
              /\ recovery' = "fresh"
              /\ fidsMap' = sorted
              /\ activeLogFileMap' = [t \in Types |-> buildActive(sorted[t], t, bad)]
              /\ archivedLogFile' = [t \in Types |-> buildArchived(sorted[t], t, bad)]
              /\ files' = ensureFiles(files, sorted)
              /\ ever' = [t \in Types |-> ever[t] \cup SeqElems(sorted[t])]
  /\ locked' = {}
  /\ setMu' = [t \in Types |-> Free]
  /\ UNCHANGED ek
  /\ rd' = NoRead
  /\ UNCHANGED <<pc, wr, sy, returned, minted, snap>>

\* Close, src/db.go:215-217: returns nil.  The caller stops using the engine.
Close ==
  /\ phase = "up"
  /\ AllIdle
  /\ phase' = "down"
  /\ snap' = [taken |-> TRUE, active |-> activeLogFileMap,
              archived |-> archivedLogFile, files |-> files]
  /\ UNCHANGED ek
  /\ rd' = NoRead
  /\ UNCHANGED <<files, fidsMap, activeLogFileMap, archivedLogFile, locked, setMu,
                 pc, wr, sy, recovery, returned, minted, ever>>

\* A Merge that compacts: it drops the archived segment of the target fid.
MergeCompacts(typ, targetFid) ==
  /\ phase = "up"
  /\ archivedLogFile' = [archivedLogFile EXCEPT ![typ] = @ \ {targetFid}]
  /\ UNCHANGED ek
  /\ rd' = NoRead
  /\ UNCHANGED <<files, phase, fidsMap, activeLogFileMap, locked, setMu, pc, wr, sy,
                 recovery, returned, minted, ever, snap>>

\* Merge, src/db.go:219-221: returns nil.
Merge(typ, targetFid) ==
  /\ phase = "up"
  /\ UNCHANGED ek
  /\ rd' = NoRead
  /\ UNCHANGED <<files, phase, fidsMap, activeLogFileMap, archivedLogFile, locked,
                 setMu, pc, wr, sy, recovery, returned, minted, ever, snap>>

\* --------------------------------------------------------------- the write path

RECURSIVE MaxOf(_)
MaxOf(S) ==
  IF S = {} THEN 0
  ELSE LET x == CHOOSE y \in S : TRUE
       IN  Max2(x, MaxOf(S \ {x}))

RECURSIVE CountEntries(_)
CountEntries(names) ==
  IF names = {} THEN 0
  ELSE LET n == CHOOSE m \in names : TRUE
       IN  Len(files[n]) + CountEntries(names \ {n})

TotalEntries == CountEntries(DOMAIN files)

ActiveSize(typ) == SegSize(files[FileName(typ, activeLogFileMap[typ])])

\* A rotation decision that rotates once the active segment has overflowed.
NeedRotateAfterOverflow(typ, size) ==
  \/ activeLogFileMap[typ] = NoLogFile
  \/ ActiveSize(typ) > MaxLogFileSize

\* A rotation decision that rotates when the entry exactly fills the segment.
NeedRotateAtLimit(typ, size) ==
  \/ activeLogFileMap[typ] = NoLogFile
  \/ ActiveSize(typ) + size >= MaxLogFileSize

\* The rotation decision of writeEntry (spec.md 4.2), and the creation of the
\* first segment of a category that has no active one (spec.md 3, Log Segment).
NeedRotate(typ, size) ==
  \/ activeLogFileMap[typ] = NoLogFile
  \/ ActiveSize(typ) + size > MaxLogFileSize

\* Fid minting (spec.md 4.3): max(known fids) + 1, and 1 for the first.
MintFid(typ) == MaxOf(SeqElems(fidsMap[typ])) + 1

\* A write path that takes no lock.
CanLockAlways(typ) == TRUE

\* The exclusive lock of the category's segment set (spec.md 4.2, 5).
CanLock(typ) == setMu[typ] = Free

\* A writer calls writeLogEntry(typ, entry) with an entry of `size` bytes.
WriteBegin(p, typ, size) ==
  /\ phase = "up"
  /\ pc[p] = "idle"
  /\ TotalEntries + Cardinality({q \in Writers : pc[q] # "idle"}) < MaxWrites
  /\ wr' = [wr EXCEPT ![p] = [typ |-> typ, size |-> size, rotate |-> FALSE]]
  /\ pc' = [pc EXCEPT ![p] = "lock"]
  /\ snap' = NoSnap
  /\ UNCHANGED ek
  /\ rd' = NoRead
  /\ UNCHANGED <<files, phase, fidsMap, activeLogFileMap, archivedLogFile, locked,
                 setMu, sy, recovery, returned, minted, ever>>

\* writeEntry takes the category's lock and decides whether to rotate.
WriteLock(p) ==
  /\ pc[p] = "lock"
  /\ CanLock(wr[p].typ)
  /\ setMu' = [setMu EXCEPT ![wr[p].typ] = p]
  /\ wr' = [wr EXCEPT ![p].rotate = NeedRotate(wr[p].typ, wr[p].size)]
  /\ pc' = [pc EXCEPT ![p] =
              IF NeedRotate(wr[p].typ, wr[p].size) THEN "rotate" ELSE "append"]
  /\ UNCHANGED ek
  /\ rd' = NoRead
  /\ UNCHANGED <<files, phase, fidsMap, activeLogFileMap, archivedLogFile, locked,
                 sy, recovery, returned, minted, ever, snap>>

\* The rotation of writeEntry: mint, archive the active segment, open the new one.
WriteRotate(p) ==
  /\ pc[p] = "rotate"
  /\ LET typ == wr[p].typ
         fid == MintFid(typ)
         old == activeLogFileMap[typ]
         name == FileName(typ, fid)
     IN  /\ fidsMap' = [fidsMap EXCEPT ![typ] = Append(@, fid)]
         /\ archivedLogFile' =
              [archivedLogFile EXCEPT ![typ] = IF old = NoLogFile THEN @ ELSE @ \cup {old}]
         /\ activeLogFileMap' = [activeLogFileMap EXCEPT ![typ] = fid]
         /\ files' = IF name \in DOMAIN files THEN files
                     ELSE [n \in (DOMAIN files) \cup {name} |->
                             IF n = name THEN <<>> ELSE files[n]]
         /\ minted' = [minted EXCEPT ![typ] = Append(@, fid)]
         /\ recovery' = IF recovery = "fresh" /\ fidsMap[typ] # <<>>
                        THEN "reminted" ELSE "rotated"
         /\ ever' = [ever EXCEPT ![typ] = @ \cup {fid}]
         \* nothing takes the lock of an archived segment again
         /\ locked' = locked \ {<<typ, old>>}
  /\ pc' = [pc EXCEPT ![p] = "append"]
  /\ UNCHANGED ek
  /\ rd' = NoRead
  /\ UNCHANGED <<phase, setMu, wr, sy, returned, snap>>

\* The append of writeEntry under the segment's own lock (LogFile.Write of
\* spec.md 4.1: a failed write leaves the size unchanged and returns no
\* position), then the release of the category lock and the return.
WriteAppend(p, ok) ==
  /\ pc[p] = "append"
  /\ LET typ == wr[p].typ
         fid == activeLogFileMap[typ]
         name == FileName(typ, fid)
     IN  /\ <<typ, fid>> \notin locked
         /\ IF ok
            THEN /\ files' = [files EXCEPT ![name] =
                                Append(@, [val |-> wr[p].size, size |-> wr[p].size])]
                 /\ returned' = returned \cup
                      {[typ |-> typ, fid |-> fid, offset |-> SegSize(files[name]),
                        entrySize |-> wr[p].size]}
            ELSE UNCHANGED <<files, returned>>
         /\ setMu' = [setMu EXCEPT ![typ] = Free]
  /\ pc' = [pc EXCEPT ![p] = "idle"]
  /\ wr' = [wr EXCEPT ![p] = NoWrite]
  /\ UNCHANGED ek
  /\ rd' = NoRead
  /\ UNCHANGED <<phase, fidsMap, activeLogFileMap, archivedLogFile, locked, sy,
                 recovery, minted, ever, snap>>

\* ------------------------------------------------------------------- reads

\* A lookup that does not try the active segment.
LookupArchivedOnly(typ, fid) ==
  IF fid \in archivedLogFile[typ] THEN "archived" ELSE "none"

\* getActiveLogFile / getArchivedLogFile (spec.md 4.2 readAt): where a fid is found.
LookupLogFile(typ, fid) ==
  IF activeLogFileMap[typ] # NoLogFile /\ fid = activeLogFileMap[typ] THEN "active"
  ELSE IF fid \in archivedLogFile[typ] THEN "archived"
  ELSE "none"

\* The segment set's readAt(fid, offset, length) (spec.md 4.2).
ReadLogFile(typ, fid, offset, length) ==
  IF LookupLogFile(typ, fid) = "none" THEN ErrLogFileNotExist
  ELSE ReadAt(files[FileName(typ, fid)], offset, length)

Read(typ, fid, offset, length) ==
  /\ phase = "up"
  /\ AllIdle
  /\ UNCHANGED ek
  /\ rd' = [typ |-> typ, fid |-> fid, offset |-> offset, length |-> length,
            res |-> ReadLogFile(typ, fid, offset, length)]
  /\ UNCHANGED <<files, phase, fidsMap, activeLogFileMap, archivedLogFile, locked,
                 setMu, pc, wr, sy, recovery, returned, minted, ever, snap>>

\* -------------------------------------------------------------------- Sync

ActiveKeys == {t \in Types : activeLogFileMap[t] # NoLogFile}

Visited(p) == {sy[p].log[i][1] : i \in 1 .. Len(sy[p].log)}

\* Sync, src/db.go:203-204: the range over activeLogFileMap begins.
SyncBegin(p) ==
  /\ phase = "up"
  /\ pc[p] = "idle"
  /\ sy' = [sy EXCEPT ![p] = [start |-> ActiveKeys, log |-> <<>>, cur |-> <<>>,
                              res |-> "none"]]
  /\ pc' = [pc EXCEPT ![p] = "range"]
  /\ UNCHANGED ek
  /\ rd' = NoRead
  /\ UNCHANGED <<files, phase, fidsMap, activeLogFileMap, archivedLogFile, locked,
                 setMu, wr, recovery, returned, minted, ever, snap>>

\* src/db.go:204-205: the range yields a key not yet visited, in any order,
\* and mlf.mu.Lock() is taken.
SyncLock(p, typ) ==
  /\ pc[p] = "range"
  /\ typ \in ActiveKeys \ Visited(p)
  /\ <<typ, activeLogFileMap[typ]>> \notin locked
  /\ locked' = locked \cup {<<typ, activeLogFileMap[typ]>>}
  /\ sy' = [sy EXCEPT ![p].cur = <<typ, activeLogFileMap[typ]>>]
  /\ pc' = [pc EXCEPT ![p] = "flush"]
  /\ UNCHANGED ek
  /\ rd' = NoRead
  /\ UNCHANGED <<files, phase, fidsMap, activeLogFileMap, archivedLogFile, setMu,
                 wr, recovery, returned, minted, ever, snap>>

\* src/db.go:206,209: lf.Sync() returned nil; mlf.mu.Unlock().
SyncFlushed(p) ==
  /\ locked' = locked \ {sy[p].cur}
  /\ sy' = [sy EXCEPT ![p].log = Append(@, <<sy[p].cur[1], sy[p].cur[2], TRUE>>),
                      ![p].cur = <<>>]
  /\ pc' = [pc EXCEPT ![p] = "range"]

\* A Sync that unlocks and goes on to the next category after a failed sync.
SyncFailedGoesOn(p) ==
  /\ locked' = locked \ {sy[p].cur}
  /\ sy' = [sy EXCEPT ![p].log = Append(@, <<sy[p].cur[1], sy[p].cur[2], FALSE>>),
                      ![p].cur = <<>>]
  /\ pc' = [pc EXCEPT ![p] = "range"]

\* src/db.go:206-208: lf.Sync() returned an error; return err.
SyncFailed(p) ==
  /\ locked' = locked
  /\ sy' = [sy EXCEPT ![p].log = Append(@, <<sy[p].cur[1], sy[p].cur[2], FALSE>>),
                      ![p].cur = <<>>,
                      ![p].res = "err"]
  /\ pc' = [pc EXCEPT ![p] = "ret"]

\* src/db.go:206-209: the segment's sync, which succeeds or fails.
SyncFlush(p, ok) ==
  /\ pc[p] = "flush"
  /\ IF ok THEN SyncFlushed(p) ELSE SyncFailed(p)
  /\ UNCHANGED ek
  /\ rd' = NoRead
  /\ UNCHANGED <<files, phase, fidsMap, activeLogFileMap, archivedLogFile, setMu,
                 wr, recovery, returned, minted, ever, snap>>

\* src/db.go:204,211: the range is over; return nil.  A key that entered the
\* map during the range is yielded or skipped.
SyncDone(p) ==
  /\ pc[p] = "range"
  /\ sy[p].start \subseteq Visited(p)
  /\ sy' = [sy EXCEPT ![p].res = "nil"]
  /\ pc' = [pc EXCEPT ![p] = "ret"]
  /\ UNCHANGED ek
  /\ rd' = NoRead
  /\ UNCHANGED <<files, phase, fidsMap, activeLogFileMap, archivedLogFile, locked,
                 setMu, wr, recovery, returned, minted, ever, snap>>

\* The caller has Sync's result.
SyncReturn(p) ==
  /\ pc[p] = "ret"
  /\ sy' = [sy EXCEPT ![p] = NoSync]
  /\ pc' = [pc EXCEPT ![p] = "idle"]
  /\ UNCHANGED ek
  /\ rd' = NoRead
  /\ UNCHANGED <<files, phase, fidsMap, activeLogFileMap, archivedLogFile, locked,
                 setMu, wr, recovery, returned, minted, ever, snap>>

\* ------------------------------------------------------------ composite keys

\* Bounds of the keys encoded: every byte string of MaxKeyLen bytes at most
\* over KeyBytes, and one of LongKeyLen bytes, whose length takes two bytes.
MaxKeyLen == 2

LongKeyLen == 64

KeyBytes == {0, 2, 128}

RECURSIVE ByteStrings(_)
ByteStrings(n) ==
  IF n = 0 THEN {<<>>}
  ELSE ByteStrings(n - 1) \cup
       {Append(b, c) : b \in {x \in ByteStrings(n - 1) : Len(x) = n - 1}, c \in KeyBytes}

LongKey == [i \in 1 .. LongKeyLen |-> i % 256]

Keys == ByteStrings(MaxKeyLen) \cup {LongKey}

\* binary.PutUvarint: seven bits a byte, low bits first, bit 8 set on every
\* byte but the last.
RECURSIVE PutUvarint(_)
PutUvarint(x) ==
  IF x < 128 THEN <<x>>
  ELSE <<128 + (x % 128)>> \o PutUvarint(x \div 128)

\* binary.PutVarint: the zig-zag of x as an unsigned varint.
PutVarint(x) == PutUvarint(IF x >= 0 THEN 2 * x ELSE (0 - 2 * x) - 1)

\* binary.Uvarint: the value and the number of bytes read; n = 0 when the
\* buffer ends inside the number.
RECURSIVE Uvarint(_)
Uvarint(buf) ==
  IF buf = <<>> THEN [val |-> 0, n |-> 0]
  ELSE IF buf[1] < 128 THEN [val |-> buf[1], n |-> 1]
  ELSE LET r == Uvarint(Tail(buf))
       IN  IF r.n = 0 THEN [val |-> 0, n |-> 0]
           ELSE [val |-> (buf[1] - 128) + 128 * r.val, n |-> r.n + 1]

\* binary.Varint
Varint(buf) ==
  LET u == Uvarint(buf)
  IN  [val |-> IF u.val % 2 = 0 THEN u.val \div 2 ELSE 0 - ((u.val + 1) \div 2),
       n |-> u.n]

\* encodeKey (spec.md 4.5, length-prefixed): the two lengths, then the two parts.
encodeKey(key, subKey) ==
  PutVarint(Len(key)) \o PutVarint(Len(subKey)) \o key \o subKey

\* A decodeKey that takes each length for one byte.
decodeKeyOneByteLengths(buf) ==
  LET keySize == Varint(buf).val
  IN  <<SubSeq(buf, 3, 2 + keySize), SubSeq(buf, 3 + keySize, Len(buf))>>

\* decodeKey: reads the two lengths and cuts the rest after the first part.
decodeKey(buf) ==
  LET k == Varint(buf)
      s == Varint(SubSeq(buf, k.n + 1, Len(buf)))
      index == k.n + s.n
      sep == index + k.val
  IN  <<SubSeq(buf, index + 1, sep), SubSeq(buf, sep + 1, Len(buf))>>

\* encodeKey(key, subKey) is called.
EncodeKey(key, subKey) ==
  /\ ek.pc = "idle"
  /\ ek' = [pc |-> "encoded", key |-> key, subKey |-> subKey,
            buf |-> encodeKey(key, subKey), out |-> <<>>]
  /\ UNCHANGED <<files, phase, fidsMap, activeLogFileMap, archivedLogFile, locked,
                 setMu, pc, wr, sy, recovery, returned, minted, ever, snap, rd>>

\* decodeKey is called on what encodeKey returned.
DecodeKey ==
  /\ ek.pc = "encoded"
  /\ ek' = [ek EXCEPT !.pc = "decoded", !.out = decodeKey(ek.buf)]
  /\ UNCHANGED <<files, phase, fidsMap, activeLogFileMap, archivedLogFile, locked,
                 setMu, pc, wr, sy, recovery, returned, minted, ever, snap, rd>>

\* The caller drops the result.
KeyDone ==
  /\ ek.pc = "decoded"
  /\ ek' = NoKey
  /\ UNCHANGED <<files, phase, fidsMap, activeLogFileMap, archivedLogFile, locked,
                 setMu, pc, wr, sy, recovery, returned, minted, ever, snap, rd>>

\* ------------------------------------------------------------ specification

\* The segments whose open may fail during recovery.
BadFiles ==
  {NoBadFile} \cup {<<t, f>> : t \in WriteTypes, f \in 1 .. MaxWrites}

\* Reads: a written category and one never written; fids 1 .. 3.
ReadTypes == {0, 1}

ReadFids == {1, 2, 3}

ReadOffsets == {0, 70}

ReadLengths == {70}

DoOpen == \E bad \in BadFiles : Open(bad)

DoMerge == \E typ \in WriteTypes : \E fid \in {1} : Merge(typ, fid)

DoWriteBegin ==
  \E p \in Writers : \E typ \in WriteTypes : \E size \in EntrySizes :
    WriteBegin(p, typ, size)

DoWriteLock == \E p \in Writers : WriteLock(p)

DoWriteRotate == \E p \in Writers : WriteRotate(p)

DoWriteAppend == \E p \in Writers : \E ok \in BOOLEAN : WriteAppend(p, ok)

DoRead ==
  \E typ \in ReadTypes : \E fid \in ReadFids :
    \E offset \in ReadOffsets : \E length \in ReadLengths :
      Read(typ, fid, offset, length)

DoSyncBegin == \E p \in Syncers : SyncBegin(p)

DoSyncLock == \E p \in Syncers : \E typ \in Types : SyncLock(p, typ)

DoSyncFlush == \E p \in Syncers : \E ok \in BOOLEAN : SyncFlush(p, ok)

DoSyncDone == \E p \in Syncers : SyncDone(p)

DoSyncReturn == \E p \in Syncers : SyncReturn(p)

\* Writers, reads, Close, Merge and reopening.
Next ==
  \/ DoOpen
  \/ Close
  \/ DoMerge
  \/ DoWriteBegin
  \/ DoWriteLock
  \/ DoWriteRotate
  \/ DoWriteAppend
  \/ DoRead

Spec == Init /\ [][Next]_vars

\* One writer, writing entries of which two fit in a segment.
DoWriteBeginOne == \E typ \in WriteTypes : WriteBegin("w1", typ, 70)

\* Sync beside one writer, Close and reopening.
NextSync ==
  \/ DoOpen
  \/ Close
  \/ DoWriteBeginOne
  \/ DoWriteLock
  \/ DoWriteRotate
  \/ DoWriteAppend
  \/ DoSyncBegin
  \/ DoSyncLock
  \/ DoSyncFlush
  \/ DoSyncDone
  \/ DoSyncReturn

SpecSync == Init /\ [][NextSync]_vars

\* Names that os.ReadDir (src/db.go:147) may return besides the names of the
\* segments the engine wrote: files that something else left in the directory.
ForeignNames ==
  {<<"data", "strs", FidText(3)>>,              \* data.strs.000000003
   <<"log", "strs">>,                           \* log.strs
   <<"log", "strs", FidText(3), "bak">>,        \* log.strs.000000003.bak
   <<"log", "strs", <<"0", "x", "3">>>>,        \* log.strs.0x3
   <<"log", "foo", FidText(4)>>,                \* log.foo.000000004
   <<"log", "strs", <<"1">>>>,                  \* log.strs.1
   <<"log", "strs", Itoa((2 ^ FidBits) + 1)>>,  \* log.strs.<2^FidBits + 1>
   <<"log", "hash", <<"-", "1">>>>}             \* log.hash.-1

\* The names a directory is made of before the engine first opens it.
DirNames == ForeignNames \cup {FileName(0, 1), FileName(0, 2)}

\* A file is in the directory before the engine first opens it.
PlaceFile(name) ==
  /\ phase = "down"
  /\ recovery = "never"
  /\ name \notin DOMAIN files
  /\ files' = [n \in (DOMAIN files) \cup {name} |->
                 IF n = name THEN <<>> ELSE files[n]]
  /\ UNCHANGED ek
  /\ rd' = NoRead
  /\ UNCHANGED <<phase, fidsMap, activeLogFileMap, archivedLogFile, locked, setMu,
                 pc, wr, sy, recovery, returned, minted, ever, snap>>

DoPlaceFile == \E name \in DirNames : PlaceFile(name)

\* Recovery over directories that hold any of DirNames.
NextDir ==
  \/ DoPlaceFile
  \/ DoOpen
  \/ Close

SpecDir == Init /\ [][NextDir]_vars

DoEncodeKey == \E key \in Keys : \E subKey \in Keys : EncodeKey(key, subKey)

\* Composite keys encoded and decoded.
NextKey ==
  \/ DoEncodeKey
  \/ DecodeKey
  \/ KeyDone

SpecKey == Init /\ [][NextKey]_vars

\* ------------------------------------------------------------------ claims

\* The fids a category has segment files for, read off the directory by the
\* name the logfile package gives each segment.
DiskFids(typ) == {f \in 1 .. (MaxWrites + 1) : FileName(typ, f) \in DOMAIN files}

Recovered == phase = "up" /\ recovery = "fresh"

C2_EmptyCategoryActiveIsOne ==
  Recovered =>
    \A typ \in Types : DiskFids(typ) = {} => activeLogFileMap[typ] = 1

\* C3: while the engine is open every category has an active segment, and its
\* fid is the largest fid of the category.
C3_OneActiveLargest ==
  phase = "up" =>
    \A typ \in Types :
      /\ activeLogFileMap[typ] # NoLogFile
      /\ activeLogFileMap[typ] = MaxOf(DiskFids(typ) \cup SeqElems(fidsMap[typ]))

Segment(typ, fid) == files[FileName(typ, fid)]

\* The category holds three entries, all of size e, and no empty segment (no
\* other write has rotated it).
ThreeEqualEntries(typ, e) ==
  /\ DiskFids(typ) # {}
  /\ \A f \in DiskFids(typ) :
       /\ Segment(typ, f) # <<>>
       /\ \A i \in 1 .. Len(Segment(typ, f)) : Segment(typ, f)[i].size = e
  /\ CountEntries({FileName(typ, f) : f \in DiskFids(typ)}) = 3

\* The scenario of src/db_test.go:54-96: three equal entries of which two fit.
C4_Scenario ==
  \A typ \in Types : \A e \in EntrySizes :
    (2 * e <= MaxLogFileSize /\ 3 * e > MaxLogFileSize /\ ThreeEqualEntries(typ, e)) =>
      /\ DiskFids(typ) = {1, 2}
      /\ Len(Segment(typ, 1)) = 2
      /\ Len(Segment(typ, 2)) = 1
      /\ phase = "up" =>
           /\ activeLogFileMap[typ] = 2
           /\ archivedLogFile[typ] = {1}
           /\ LookupLogFile(typ, 1) = "archived"

\* A step of the open engine that replaces the active segment of typ.
Rotates(typ) ==
  phase = "up" /\ phase' = "up" /\ activeLogFileMap'[typ] # activeLogFileMap[typ]

\* A rotation mints the previous maximum fid + 1; it replaces an active
\* segment only for a write that would exceed the maximum size, and leaves that
\* segment, unchanged, in the archived map.
C4_RotationStep ==
  \A typ \in Types :
    Rotates(typ) =>
      /\ activeLogFileMap'[typ] = MaxOf(DiskFids(typ)) + 1
      /\ activeLogFileMap[typ] # NoLogFile =>
           /\ \E p \in Writers :
                /\ pc[p] = "rotate"
                /\ pc'[p] = "append"
                /\ wr[p].typ = typ
                /\ ActiveSize(typ) + wr[p].size > MaxLogFileSize
           /\ activeLogFileMap[typ] \in archivedLogFile'[typ]
           /\ files'[FileName(typ, activeLogFileMap[typ])] =
                files[FileName(typ, activeLogFileMap[typ])]

\* An entry is appended to the active segment, the newest of its category,
\* where it fits.
C4_AppendStep ==
  \A p \in Writers :
    (pc[p] = "append" /\ pc'[p] = "idle" /\ files' # files) =>
      LET name == FileName(wr[p].typ, activeLogFileMap[wr[p].typ])
      IN  /\ activeLogFileMap[wr[p].typ] = MaxOf(DiskFids(wr[p].typ))
          /\ \A n \in DOMAIN files : n # name => files'[n] = files[n]
          /\ SegSize(files[name]) + wr[p].size <= MaxLogFileSize
          /\ files'[name] = Append(files[name], [val |-> wr[p].size, size |-> wr[p].size])

\* C4: rotation correctness.  A write whose entry would make the active
\* segment exceed MaxLogFileSize first creates a new active segment with fid =
\* previous maximum fid + 1, the segment active before is then found in the
\* archived map under its fid, and three equal entries of which two fit in
\* MaxLogFileSize = 150 leave fids 1 and 2, fid 2 active and fid 1 archived.
C4_RotationCorrect ==
  /\ []C4_Scenario
  /\ [][C4_RotationStep /\ C4_AppendStep]_vars

\* Three entries of 70 bytes were written to the string category.
C4_Witness ==
  /\ ThreeEqualEntries(0, 70)
  /\ phase = "up"
  /\ activeLogFileMap[0] = 2
  /\ archivedLogFile[0] = {1}
  /\ recovery = "rotated"

\* C5: a newly minted fid of a category is the maximum of all the fids the
\* category has had, in the registry or in the directory, plus one, so it is
\* none of them and exceeds them all, also after Close and reopening.
C5_FidsNeverReused ==
  [][\A typ \in Types :
       minted'[typ] # minted[typ] =>
         LET fid == minted'[typ][Len(minted'[typ])]
             had == ever[typ] \cup DiskFids(typ) \cup SeqElems(fidsMap[typ])
         IN  /\ fid = MaxOf(had) + 1
             /\ \A f \in had : f < fid
             /\ \A i \in 1 .. Len(minted[typ]) : minted[typ][i] # fid]_vars

\* A fid was minted by an engine that recovered the category from its files.
C5_Witness ==
  /\ recovery = "reminted"
  /\ \E typ \in Types :
       /\ Len(minted[typ]) >= 2
       /\ activeLogFileMap[typ] = minted[typ][Len(minted[typ])]
       /\ archivedLogFile[typ] # {}

\* C6: recovery idempotence.  An engine reopened after Close with no write in
\* between has, in each category, the active fid and the archived fids it had
\* at Close, and a read of an archived segment returns the bytes it returned.
C6_RecoveryIdempotent ==
  (phase = "up" /\ snap.taken) =>
    \A typ \in Types :
      /\ activeLogFileMap[typ] = snap.active[typ]
      /\ archivedLogFile[typ] = snap.archived[typ]
      /\ \A fid \in snap.archived[typ] :
           \A offset \in {0, 70, 80} : \A length \in {70, 80, 150} :
             ReadLogFile(typ, fid, offset, length) =
               ReadAt(snap.files[FileName(typ, fid)], offset, length)

\* An engine with an archived segment was closed and reopened.
C6_Witness ==
  /\ phase = "up"
  /\ snap.taken
  /\ \E typ \in Types :
       /\ snap.archived[typ] # {}
       /\ ReadLogFile(typ, 1, 0, 70).err = "nil"

\* A position a write returned still names its entry.
PositionValid(pos) ==
  /\ \/ pos.fid = activeLogFileMap[pos.typ]
     \/ pos.fid \in archivedLogFile[pos.typ]
  /\ LET got == ReadAt(files[FileName(pos.typ, pos.fid)], pos.offset, pos.entrySize)
     IN  /\ got.err = "nil"
         /\ \E i \in 1 .. Len(files[FileName(pos.typ, pos.fid)]) :
              got.bytes = {<<i, pos.entrySize, pos.offset, pos.offset + pos.entrySize>>}

InWriteEntry(p) == pc[p] \in {"rotate", "append"}

C7_State ==
  /\ \A p \in Writers : \A q \in Writers :
       (p # q /\ InWriteEntry(p) /\ InWriteEntry(q)) => wr[p].typ # wr[q].typ
  /\ \A typ \in Types : \A i \in 1 .. Len(minted[typ]) : \A j \in 1 .. Len(minted[typ]) :
       i # j => minted[typ][i] # minted[typ][j]
  /\ phase = "up" => \A pos \in returned : PositionValid(pos)

C7_Step ==
  \A p \in Writers :
    (pc[p] = "rotate" /\ pc'[p] = "append") =>
      \/ activeLogFileMap[wr[p].typ] = NoLogFile
      \/ ActiveSize(wr[p].typ) + wr[p].size > MaxLogFileSize

\* C7: under concurrent writers to one category only one is between the
\* rotation decision and the append at a time, no fid is minted twice, no
\* rotation is made for an overflow another write already rotated for, and
\* every position a write returned names, in every later state of the engine,
\* its entry in the active segment or in an archived one under the same fid.
C7_RotationAtomic ==
  /\ []C7_State
  /\ [][C7_Step]_vars

\* One writer has rotated and is about to append while the other waits for the
\* lock of the same category, which has a returned position in an archived segment.
C7_Witness ==
  /\ pc["w1"] = "append"
  /\ wr["w1"].rotate
  /\ pc["w2"] = "lock"
  /\ wr["w2"].typ = wr["w1"].typ
  /\ \E pos \in returned :
       pos.typ = wr["w1"].typ /\ pos.fid \in archivedLogFile[pos.typ]

C8_State ==
  rd.typ # -1 =>
    LET isActive == activeLogFileMap[rd.typ] # NoLogFile /\ rd.fid = activeLogFileMap[rd.typ]
        isArchived == rd.fid \in archivedLogFile[rd.typ]
    IN  /\ rd.res.err = "ErrLogFileNotExist" <=> (~isActive /\ ~isArchived)
        /\ (isActive \/ isArchived) =>
             rd.res = ReadAt(files[FileName(rd.typ, rd.fid)], rd.offset, rd.length)

C8_Step ==
  rd'.typ # -1 =>
    UNCHANGED <<files, phase, fidsMap, activeLogFileMap, archivedLogFile, locked,
                setMu, pc, wr, sy, recovery, returned, minted, ever, snap>>

\* C8: a read by fid is served from the active segment when the fid is the
\* active fid, otherwise from the archived segment of that fid; it fails with
\* ErrLogFileNotExist exactly when the fid is neither, and it changes no state.
C8_ReadByFid ==
  /\ []C8_State
  /\ [][C8_Step]_vars

\* A read of a fid that a category with an active segment does not have.
C8_Witness ==
  /\ rd.typ # -1
  /\ rd.res.err = "ErrLogFileNotExist"
  /\ activeLogFileMap[rd.typ] # NoLogFile
  /\ archivedLogFile[rd.typ] # {}

\* C9: Sync returns nil only after every sync succeeded and every category
\* that had an active segment when Sync began was synced; a failed sync is the
\* last one Sync makes, and Sync returns its error.
C9_SyncStopsAtFirstFailure ==
  \A p \in Syncers :
    LET log == sy[p].log
        n == Len(log)
    IN  /\ \A i \in 1 .. (n - 1) : log[i][3]
        /\ (n > 0 /\ ~log[n][3]) => (pc[p] = "ret" /\ sy[p].res = "err")
        /\ pc[p] = "ret" =>
             /\ sy[p].res \in {"nil", "err"}
             /\ sy[p].res = "nil" =>
                  /\ \A i \in 1 .. n : log[i][3]
                  /\ sy[p].start \subseteq Visited(p)
             /\ sy[p].res = "err" => (n > 0 /\ ~log[n][3])

\* Sync returned an error at the first of two active segments.
C9_Witness ==
  /\ pc["s1"] = "ret"
  /\ sy["s1"].res = "err"
  /\ Cardinality(sy["s1"].start) = 2
  /\ Len(sy["s1"].log) = 1

\* C10: an engine that Open returned holds every segment file of the
\* directory as its category's active segment or in its archived map; an Open
\* in which a segment could not be opened returns no engine.
C10_OpenFailureAborts ==
  /\ phase = "up" =>
       \A typ \in Types : \A fid \in DiskFids(typ) :
         fid = activeLogFileMap[typ] \/ fid \in archivedLogFile[typ]
  /\ recovery = "fatal" =>
       /\ phase = "down"
       /\ activeLogFileMap = EmptyActive
       /\ archivedLogFile = EmptyArchived

\* An Open over two segment files of a category aborted.
C10_Witness ==
  /\ recovery = "fatal"
  /\ phase = "down"
  /\ \E typ \in Types : Cardinality(DiskFids(typ)) >= 2


\* ---------------------------------------------- claims about foreign files

\* An optional sign and then decimal digits, one at least.
IntegerText(s) ==
  /\ s # <<>>
  /\ s[1] \in {"+", "-", "0", "1", "2", "3", "4", "5", "6", "7", "8", "9"}
  /\ s[Len(s)] \in {"0", "1", "2", "3", "4", "5", "6", "7", "8", "9"}
  /\ \A i \in 2 .. Len(s) : s[i] \in {"0", "1", "2", "3", "4", "5", "6", "7", "8", "9"}

\* The name lacks the log prefix, does not split into three fields, or has a
\* fid field that is not an integer.
Malformed(name) ==
  \/ Len(name) < 2
  \/ name[1] # "log"
  \/ Len(name) # 3
  \/ ~IntegerText(name[3])

\* The number of fids in a registry, over the given categories.
RECURSIVE RegCount(_, _)
RegCount(reg, types) ==
  IF types = {} THEN 0
  ELSE LET t == CHOOSE u \in types : TRUE
       IN  Len(reg[t]) + RegCount(reg, types \ {t})

\* Open returns an engine in this step.
OpenReturns == phase = "down" /\ phase' = "up"

C11_Step ==
  OpenReturns =>
    /\ RegCount(fidsMap', Types) = Cardinality({n \in DOMAIN files : ~Malformed(n)})
    /\ \A typ \in Types : \A fid \in 1 .. (MaxWrites + 1) :
         FileName(typ, fid) \in DOMAIN files =>
           /\ fid \in SeqElems(fidsMap'[typ])
           /\ fid = activeLogFileMap'[typ] \/ fid \in archivedLogFile'[typ]

C11_State ==
  recovery = "fatal" => \E n \in DOMAIN files : ~Malformed(n)

\* C11: recovery registers one fid for each file of the directory whose name
\* has the log prefix, three fields and an integer fid field, and none for any
\* other file; it aborts only over a directory that holds a file of the first
\* kind; every segment file the engine wrote is recovered, as the active
\* segment of its category or an archived one, whatever else the directory holds.
C11_MalformedNamesSkipped ==
  /\ []C11_State
  /\ [][C11_Step]_vars

\* Recovery over a segment file and three malformed names registered the
\* segment alone.
C11_Witness ==
  /\ phase = "up"
  /\ {<<"data", "strs", FidText(3)>>, <<"log", "strs", FidText(3), "bak">>,
      <<"log", "strs", <<"0", "x", "3">>>>, <<"log", "strs">>,
      FileName(0, 1)} \subseteq DOMAIN files
  /\ fidsMap[0] = <<1>>
  /\ activeLogFileMap[0] = 1

\* The well-formed names of the directory whose category field names typ.
NamesOf(typ) ==
  {n \in DOMAIN files : ~Malformed(n) /\ n[2] = FileTypeName(typ)}

\* A step of the open engine changes the registry, the active fid or the
\* archived map of a category only for a writer that rotates that category,
\* and a segment file only for a writer that appends to it.
C12_Frame ==
  (phase = "up" /\ phase' = "up") =>
    /\ \A typ \in Types :
         (\/ fidsMap'[typ] # fidsMap[typ]
          \/ activeLogFileMap'[typ] # activeLogFileMap[typ]
          \/ archivedLogFile'[typ] # archivedLogFile[typ]) =>
           \E p \in Writers :
             pc[p] = "rotate" /\ pc'[p] = "append" /\ wr[p].typ = typ
    /\ \A n \in DOMAIN files :
         files'[n] # files[n] =>
           \E p \in Writers :
             /\ pc[p] = "append"
             /\ pc'[p] = "idle"
             /\ n = FileName(wr[p].typ, activeLogFileMap[wr[p].typ])

\* Recovery gives each category one fid for each well-formed file named
\* after it, and no other.
C12_Registered ==
  OpenReturns =>
    \A typ \in Types : Len(fidsMap'[typ]) = Cardinality(NamesOf(typ))

\* C12: categories are independent.  Writing to or rotating one category
\* leaves the registry, the active fid, the archived map and the segment files
\* of every other category unchanged, and recovery registers a discovered file
\* only under the category its name encodes.
C12_CategoriesIndependent == [][C12_Frame /\ C12_Registered]_vars

\* C14: Sync holds the lock of an active segment only while it syncs that
\* segment: once Sync has returned, with nil or with an error, no lock it took
\* is held, so a later Sync or write can take it.
C14_SyncReleasesLocks ==
  (\A p \in Syncers : pc[p] \in {"idle", "ret"}) => locked = {}

\* The category names the engine writes in segment file names.
CategoryNames == {"strs", "list", "hash", "sets", "zset"}

\* A name with the log prefix, three fields and an integer fid field whose
\* category field is none of the category names.
UnknownCategory(name) == ~Malformed(name) /\ name[2] \notin CategoryNames

\* C15: recovery ignores a file whose category field is not a category name:
\* the registries hold one fid for each well-formed file with a recognized
\* category and nothing else, so no category, the string category included,
\* gets the fid of such a file.
C15_UnknownCategoryIgnored ==
  [][OpenReturns =>
       /\ RegCount(fidsMap', Types) =
            Cardinality({n \in DOMAIN files : ~Malformed(n) /\ ~UnknownCategory(n)})
       /\ \A n \in DOMAIN files :
            (UnknownCategory(n) /\ NamesOf(0) = {}) => fidsMap'[0] = <<>>]_vars

\* C16: after recovery no fid is twice in the registry of a category, and the
\* active fid of a category is not a key of its archived map.
C16_FidsUniqueAfterRecovery ==
  Recovered =>
    \A typ \in Types :
      /\ \A i \in 1 .. Len(fidsMap[typ]) : \A j \in 1 .. Len(fidsMap[typ]) :
           i # j => fidsMap[typ][i] # fidsMap[typ][j]
      /\ activeLogFileMap[typ] \notin archivedLogFile[typ]

\* C17: every fid that recovery registers is the integer that the fid field
\* of a well-formed file name of the directory spells.
C17_FidIsTheIntegerWritten ==
  [][OpenReturns =>
       \A typ \in Types : \A i \in 1 .. Len(fidsMap'[typ]) :
         \E n \in DOMAIN files :
           ~Malformed(n) /\ Atoi(n[3]).val = fidsMap'[typ][i]]_vars

\* C18: no segment file, active or archived, is larger than MaxLogFileSize,
\* the entries written being no larger than MaxLogFileSize each.
C18_SegmentSizeBounded ==
  /\ \A e \in EntrySizes : e <= MaxLogFileSize
  /\ \A n \in DOMAIN files : SegSize(files[n]) <= MaxLogFileSize

\* A segment was filled to MaxLogFileSize exactly and the next write rotated.
C18_Witness ==
  /\ phase = "up"
  /\ \E typ \in Types :
       /\ 1 \in archivedLogFile[typ]
       /\ SegSize(Segment(typ, 1)) = MaxLogFileSize
       /\ activeLogFileMap[typ] = 2
       /\ Segment(typ, 2) # <<>>

\* Close leaves the engine and the directory as they are.
C19_CloseStep ==
  (phase = "up" /\ phase' = "down") =>
    UNCHANGED <<files, fidsMap, activeLogFileMap, archivedLogFile, locked, setMu>>

\* Whatever the step (a Merge, a write, a rotation, a read, reopening after
\* Close), a fid archived before it is archived after it, with the same bytes.
C19_ArchivedStays ==
  phase' = "up" =>
    \A typ \in Types : \A fid \in archivedLogFile[typ] :
      /\ fid \in archivedLogFile'[typ]
      /\ files'[FileName(typ, fid)] = files[FileName(typ, fid)]

\* C19: Close and Merge change no engine state, and the archived fids of a
\* category never shrink: a fid once archived stays archived, with the bytes
\* it had, over every operation and over Close and reopening.
C19_ArchivedNeverShrinks == [][C19_CloseStep /\ C19_ArchivedStays]_vars

\* An engine with an archived segment was closed.
C19_Witness ==
  /\ phase = "down"
  /\ snap.taken
  /\ \E typ \in Types :
       /\ 1 \in snap.archived[typ]
       /\ archivedLogFile[typ] = snap.archived[typ]
       /\ files = snap.files

=============================================================================
